---------------------------- MODULE Spec2Model ----------------------------
(***************************************************************************)
(* Model of src/app.py: the image background replacement tool.            *)
(*                                                                         *)
(* The script runs top to bottom once per request: it validates the two   *)
(* uploads (validate_file), and when both are valid it decodes, downscales *)
(* (compress_image), stages the foreground in a temporary directory, calls *)
(* the background remover, reconciles sizes and modes, composites, shows   *)
(* and exports the result.  Failures are reported through st.error.        *)
(*                                                                         *)
(* Four specifications are defined:                                        *)
(*   Spec           the whole run of the script (pc walks the statements)  *)
(*   SpecValidate   validate_file applied to bounded uploads               *)
(*   SpecCompress   compress_image applied to bounded images               *)
(*   SpecComposite  Image.alpha_composite applied to bounded RGBA images   *)
(***************************************************************************)
EXTENDS Integers, Sequences, FiniteSets, TLC

VARIABLES
    pc,                   \* the statement of the script that runs next
    foreground_file,      \* app.py:33
    background_file,      \* app.py:34
    valid_foreground,     \* app.py:60
    valid_background,     \* app.py:61
    foreground_img,       \* app.py:68, 76
    background_img,       \* app.py:69, 77, 100, 104
    processed_foreground, \* app.py:96, 103
    output_img,           \* app.py:107
    temp_dir,             \* app.py:84: the temporary directory and its files
    exc,                  \* the exception in flight, "none" when there is none
    messages,             \* what the page shows, in order (st.error, st.info, ...)
    executed,             \* the statements that have run, in order
    file,                 \* validate_file's argument        (SpecValidate)
    file_type,            \* validate_file's label           (SpecValidate)
    image,                \* compress_image's argument       (SpecCompress)
    max_dimension,        \* compress_image's bound          (SpecCompress)
    im1,                  \* alpha_composite's destination   (SpecComposite)
    im2,                  \* alpha_composite's source        (SpecComposite)
    call,                 \* "ready" before the function is applied, "returned" after
    ret                   \* the function's result

pipelineVars == <<pc, foreground_file, background_file, valid_foreground,
                  valid_background, foreground_img, background_img,
                  processed_foreground, output_img, temp_dir, exc, messages,
                  executed>>
functionVars == <<file, file_type, image, max_dimension, im1, im2, call, ret>>
vars == <<pipelineVars, functionVars>>

-----------------------------------------------------------------------------
(* Bounds of the model. *)

\* Longest stem (the part of a file name put before its last field).
MaxStemLen == 3
\* Upload sizes are taken around every whole number of MB up to this one.
MaxSizeMB == 6
\* Largest width and height of the images given to compress_image.
MaxSide == 40
\* Largest max_dimension given to compress_image.
MaxBox == 12
\* Most pixels of the images given to alpha_composite.
MaxPixels == 2

(* Program constants. *)

MAX_IMAGE_SIZE_MB == 5
MAX_IMAGE_DIMENSION == 1024
ALLOWED_IMAGE_FORMATS ==
    << <<"p","n","g">>, <<"j","p","g">>, <<"j","p","e","g">>,
       <<"b","m","p">>, <<"t","i","f","f">> >>
\* 1024 * 1024 bytes, app.py:39
BytesPerMB == 1024 * 1024

-----------------------------------------------------------------------------
(* Strings are sequences of one-character strings. *)

UpperCase == <<"A","B","C","D","E","F","G","H","I","J","K","L","M",
               "N","O","P","Q","R","S","T","U","V","W","X","Y","Z">>
LowerCase == <<"a","b","c","d","e","f","g","h","i","j","k","l","m",
               "n","o","p","q","r","s","t","u","v","w","x","y","z">>

\* str.lower() on one character
LowerChar(c) ==
    IF \E i \in DOMAIN UpperCase : UpperCase[i] = c
    THEN LowerCase[CHOOSE i \in DOMAIN UpperCase : UpperCase[i] = c]
    ELSE c

\* str.lower()
Lower(s) == [i \in DOMAIN s |-> LowerChar(s[i])]

\* str.split(sep) for a one-character separator: the fields between separators
RECURSIVE Split(_, _)
Split(s, sep) ==
    IF \A i \in DOMAIN s : s[i] # sep
    THEN <<s>>
    ELSE LET i == CHOOSE k \in DOMAIN s :
                     s[k] = sep /\ \A j \in 1..(k - 1) : s[j] # sep
         IN <<SubSeq(s, 1, i - 1)>> \o Split(SubSeq(s, i + 1, Len(s)), sep)

\* lst[-1]
LastOf(lst) == lst[Len(lst)]

\* x in lst
InList(x, lst) == \E i \in DOMAIN lst : lst[i] = x

-----------------------------------------------------------------------------
(* Uploaded files.  None is the record with present = FALSE.  content says *)
(* whether the bytes decode as an image; size and mode are those of the    *)
(* decoded image.                                                          *)

NoFile == [present |-> FALSE, name |-> <<>>, size |-> 0, content |-> "none",
           dims |-> <<0, 0>>, mode |-> "none"]

UploadedFile(name, size, content, dims, mode) ==
    [present |-> TRUE, name |-> name, size |-> size, content |-> content,
     dims |-> dims, mode |-> mode]

\* st.error(...) of validate_file, st.error of the handlers, st.info, ...
Message(kind, text, who) == [kind |-> kind, text |-> text, who |-> who]

\* A mutant of validate_file: the size test is skipped.
validate_file_no_size_check(f, label) ==
    IF f.present
    THEN IF ~InList(Lower(LastOf(Split(f.name, "."))), ALLOWED_IMAGE_FORMATS)
         THEN [ret |-> FALSE, errors |-> <<Message("error", "format", label)>>]
         ELSE [ret |-> TRUE, errors |-> <<>>]
    ELSE [ret |-> FALSE, errors |-> <<>>]

\* A mutant of validate_file: every rejection is silent.
validate_file_silent(f, label) ==
    IF f.present
    THEN LET file_ext == Lower(LastOf(Split(f.name, ".")))
         IN [ret |-> InList(file_ext, ALLOWED_IMAGE_FORMATS)
                     /\ ~(f.size > MAX_IMAGE_SIZE_MB * BytesPerMB),
             errors |-> <<>>]
    ELSE [ret |-> FALSE, errors |-> <<>>]

\* validate_file(file, file_type): the returned flag and the diagnostics it
\* emits.  file_size_mb = size / (1024 * 1024) is a float division by a power
\* of two, exact for every size below 2^53, so file_size_mb > MAX is
\* size > MAX * 1024 * 1024.
validate_file(f, label) ==
    IF f.present
    THEN LET file_ext == Lower(LastOf(Split(f.name, ".")))
         IN IF ~InList(file_ext, ALLOWED_IMAGE_FORMATS)
            THEN [ret |-> FALSE,
                  errors |-> <<Message("error", "format", label)>>]
            ELSE IF f.size > MAX_IMAGE_SIZE_MB * BytesPerMB
            THEN [ret |-> FALSE,
                  errors |-> <<Message("error", "size", label)>>]
            ELSE [ret |-> TRUE, errors |-> <<>>]
    ELSE [ret |-> FALSE, errors |-> <<>>]

-----------------------------------------------------------------------------
(* Images: size = <<width, height>> and the colour mode.  Pixel data is    *)
(* modelled only where the compositor is studied (SpecComposite).          *)

Img(size, mode) == [size |-> size, mode |-> mode]
NoImage == Img(<<0, 0>>, "none")

Abs(n) == IF n < 0 THEN -n ELSE n
Max2(a, b) == IF a >= b THEN a ELSE b

\* Image.thumbnail's round_aspect for the width: number = y * aspect with
\* aspect = w / h, key(n) = |aspect - n / y|.  The result is
\* max(min(floor, ceil, key = key), 1).  The keys are compared exactly
\* (|w*y - n*h| over the common denominator h*y); where they tie exactly the
\* floating-point rounding of w / h decides, so both candidates are possible.
RoundAspectWidth(w, h, y) ==
    LET fl   == (y * w) \div h
        ce   == IF (y * w) % h = 0 THEN fl ELSE fl + 1
        keyF == Abs(w * y - fl * h)
        keyC == Abs(w * y - ce * h)
        pick == IF keyF < keyC THEN {fl}
                ELSE IF keyC < keyF THEN {ce}
                ELSE {fl, ce}
    IN {Max2(n, 1) : n \in pick}

\* round_aspect for the height: number = x / aspect, key(n) = 0 if n == 0
\* else |aspect - x / n|, compared exactly by cross-multiplication.
RoundAspectHeight(w, h, x) ==
    LET fl   == (x * h) \div w
        ce   == IF (x * h) % w = 0 THEN fl ELSE fl + 1
        numF == Abs(w * fl - x * h)      \* key(fl) = numF / (h * fl)
        numC == Abs(w * ce - x * h)      \* key(ce) = numC / (h * ce)
        pick == IF fl = 0 THEN {fl}
                ELSE IF numF * ce < numC * fl THEN {fl}
                ELSE IF numC * fl < numF * ce THEN {ce}
                ELSE {fl, ce}
    IN {Max2(n, 1) : n \in pick}

\* A mutant of thumbnail: the image is resized to the box itself.
thumbnail_to_box(size, box) == {box}

\* image.thumbnail(box, LANCZOS): the sizes the image can have afterwards.
\* Pillow's preserve_aspect_ratio: nothing changes when the box holds the
\* image; otherwise the side that binds is set to the box and the other one
\* is round_aspect of the proportional value.
thumbnail(size, box) ==
    LET w == size[1]
        h == size[2]
        x == box[1]
        y == box[2]
    IN IF x >= w /\ y >= h
       THEN {size}
       ELSE IF x * h >= w * y      \* x / y >= aspect
       THEN {<<nx, y>> : nx \in RoundAspectWidth(w, h, y)}
       ELSE {<<x, ny>> : ny \in RoundAspectHeight(w, h, x)}

\* A mutant of compress_image: the guard is dropped and every image is scaled
\* so that its larger side is max_dimension.
compress_image_always_scale(img, maxd) ==
    LET w == img.size[1]
        h == img.size[2]
    IN IF w >= h
       THEN {Img(<<maxd, Max2((h * maxd) \div w, 1)>>, img.mode)}
       ELSE {Img(<<Max2((w * maxd) \div h, 1), maxd>>, img.mode)}

\* compress_image(image, max_dimension): the images it can return.
compress_image(img, maxd) ==
    IF Max2(img.size[1], img.size[2]) > maxd
    THEN {Img(s, img.mode) : s \in thumbnail(img.size, <<maxd, maxd>>)}
    ELSE {img}

-----------------------------------------------------------------------------
(* Image.alpha_composite(im1, im2): im1 is the destination (background),   *)
(* im2 the source (foreground).  Pixels are <<r, g, b, a>>, 8 bits each;   *)
(* the arithmetic is Pillow's integer implementation.                     *)

PRECISION_BITS == 7
ShiftRight(n, k) == n \div (2 ^ k)
SHIFTFORDIV255(a) == ShiftRight(ShiftRight(a, 8) + a, 8)

\* One pixel of ImagingAlphaComposite.  The C variables are UINT32; the
\* largest intermediate, 255 * 255 * 255 * 128, is below 2^31, so nothing
\* wraps and plain integers compute the same values.
CompositePixel(dst, src) ==
    IF src[4] = 0
    THEN dst
    ELSE LET blend   == dst[4] * (255 - src[4])
             outa255 == src[4] * 255 + blend
             coef1   == (src[4] * 255 * 255 * (2 ^ PRECISION_BITS)) \div outa255
             coef2   == 255 * (2 ^ PRECISION_BITS) - coef1
             Chan(i) == ShiftRight(
                           SHIFTFORDIV255(src[i] * coef1 + dst[i] * coef2
                                          + 128 * (2 ^ PRECISION_BITS)),
                           PRECISION_BITS) % 256
         IN <<Chan(1), Chan(2), Chan(3), SHIFTFORDIV255(outa255 + 128) % 256>>

\* The pixel loop: the output holds CompositePixel of each pair.
CompositePixels(dstPixels, srcPixels) ==
    [i \in DOMAIN dstPixels |-> CompositePixel(dstPixels[i], srcPixels[i])]

\* The compositor's precondition ("images do not match" otherwise).
ImagesMatch(a, b) ==
    /\ a.mode = "RGBA"
    /\ b.mode = "RGBA"
    /\ a.size = b.size

\* An RGBA image with its pixel data, row by row.
PixImg(size, pixels) == [size |-> size, mode |-> "RGBA", pixels |-> pixels]
NoPixImage == [size |-> <<0, 0>>, mode |-> "none", pixels |-> <<>>]

\* A mutant of alpha_composite: the two images are taken in the other order.
alpha_composite_swapped(dst, src) ==
    IF ImagesMatch(dst, src)
    THEN [ok |-> TRUE,
          image |-> PixImg(dst.size, CompositePixels(src.pixels, dst.pixels))]
    ELSE [ok |-> FALSE, image |-> NoPixImage]

\* Image.alpha_composite(im1, im2) on images with pixel data: ValueError
\* (ok = FALSE) when the images do not match, the blended image otherwise.
alpha_composite(dst, src) ==
    IF ImagesMatch(dst, src)
    THEN [ok |-> TRUE,
          image |-> PixImg(dst.size, CompositePixels(dst.pixels, src.pixels))]
    ELSE [ok |-> FALSE, image |-> NoPixImage]

-----------------------------------------------------------------------------
(* The values the variables of a specification hold when it does not use   *)
(* them.                                                                   *)

PipelineUnused ==
    /\ pc = "unused"
    /\ foreground_file = NoFile
    /\ background_file = NoFile
    /\ valid_foreground = FALSE
    /\ valid_background = FALSE
    /\ foreground_img = NoImage
    /\ background_img = NoImage
    /\ processed_foreground = NoImage
    /\ output_img = NoImage
    /\ temp_dir = [exists |-> FALSE, files |-> {}]
    /\ exc = "none"
    /\ messages = <<>>
    /\ executed = <<>>

-----------------------------------------------------------------------------
(* SpecValidate: validate_file applied to one upload.                      *)

SeqsUpTo(S, n) == UNION {[1..k -> S] : k \in 0..n}

\* Stems: what precedes the last field of a name, dots included.
Stems == SeqsUpTo({"a", "."}, MaxStemLen)

\* Last fields: the allowed formats in several cases, and others.
Endings ==
    { <<"p","n","g">>, <<"P","N","G">>, <<"j","p","g">>, <<"J","p","G">>,
      <<"j","p","e","g">>, <<"b","m","p">>, <<"B","M","P">>,
      <<"t","i","f","f">>, <<"T","i","f","f">>, <<"g","i","f">>,
      <<"p","n">>, <<"p","n","g","x">>, <<"t","i","f">>, <<>> }

Names == {stem \o ending : stem \in Stems, ending \in Endings}

\* Byte counts at, just below and just above every whole number of MB.
Sizes == {k * BytesPerMB + d : k \in 0..MaxSizeMB, d \in {-1, 0, 1}} \ {-1}

Labels == {"Foreground", "Background"}

InitValidate ==
    /\ PipelineUnused
    /\ file \in {UploadedFile(n, sz, c, <<1, 1>>, "RGB") :
                    n \in Names, sz \in Sizes, c \in {"image", "garbage"}}
                \cup {NoFile}
    /\ file_type \in Labels
    /\ image = NoImage
    /\ max_dimension = 0
    /\ im1 = NoPixImage
    /\ im2 = NoPixImage
    /\ call = "ready"
    /\ ret = [ret |-> FALSE, errors |-> <<>>]

CallValidate ==
    /\ call = "ready"
    /\ ret' = validate_file(file, file_type)
    /\ call' = "returned"
    /\ UNCHANGED <<pipelineVars, file, file_type, image, max_dimension, im1, im2>>

NextValidate == CallValidate

SpecValidate == InitValidate /\ [][NextValidate]_vars

\* The substring of a name after its last "." (the whole name when it holds
\* no "."), written without str.split.
AfterLastDot(name) ==
    LET dots == {i \in DOMAIN name : name[i] = "."}
        last == IF dots = {} THEN 0
                ELSE CHOOSE i \in dots : \A j \in dots : j <= i
    IN SubSeq(name, last + 1, Len(name))

AllowedFormatSet == {ALLOWED_IMAGE_FORMATS[i] : i \in DOMAIN ALLOWED_IMAGE_FORMATS}

\* The size in MB exceeds the ceiling: more whole MB than the ceiling, or
\* exactly the ceiling and some bytes more.
SizeExceedsCeiling(bytes) ==
    \/ bytes \div BytesPerMB > MAX_IMAGE_SIZE_MB
    \/ bytes \div BytesPerMB = MAX_IMAGE_SIZE_MB /\ bytes % BytesPerMB > 0

\* C1: for every uploaded file that is present, validate_file returns false
\* if the lower-cased substring of its name after the last "." is not an
\* allowed format or if its size in MB is greater than the ceiling, and true
\* in every other case; the result depends on the name and the size only,
\* whatever the bytes hold.  (For a name without "." the substring is the
\* whole name.)
C1_ValidateDecision ==
    (call = "returned" /\ file.present) =>
        ret.ret = ~(\/ Lower(AfterLastDot(file.name)) \notin AllowedFormatSet
                    \/ SizeExceedsCeiling(file.size))

\* C1 witness: validate_file has decided one of these: a .gif name is
\* rejected, a 6 MB file with an allowed name is rejected, or a 2 MB file
\* with an upper-case allowed extension is accepted though its bytes are no
\* image.
C1_Witness ==
    /\ call = "returned"
    /\ file.present
    /\ file.content = "garbage"
    /\ \/ /\ file.name = <<"a", ".", "g","i","f">>
          /\ file.size = 2 * BytesPerMB
          /\ ~ret.ret
       \/ /\ file.name = <<"a", ".", "p","n","g">>
          /\ file.size = 6 * BytesPerMB
          /\ ~ret.ret
       \/ /\ file.name = <<"a", ".", "P","N","G">>
          /\ file.size = 2 * BytesPerMB
          /\ ret.ret

-----------------------------------------------------------------------------
(* SpecCompress: compress_image applied to one image.                      *)

Modes == {"RGB", "RGBA", "L"}

InitCompress ==
    /\ PipelineUnused
    /\ file = NoFile
    /\ file_type = "none"
    /\ image \in {Img(<<w, h>>, m) : w \in 1..MaxSide, h \in 1..MaxSide, m \in Modes}
    /\ max_dimension \in 1..MaxBox
    /\ im1 = NoPixImage
    /\ im2 = NoPixImage
    /\ call = "ready"
    /\ ret = NoImage

CallCompress ==
    /\ call = "ready"
    /\ ret' \in compress_image(image, max_dimension)
    /\ call' = "returned"
    /\ UNCHANGED <<pipelineVars, file, file_type, image, max_dimension, im1, im2>>

NextCompress == CallCompress

SpecCompress == InitCompress /\ [][NextCompress]_vars

\* C7: an image whose max(width, height) is at most max_dimension comes back
\* with width and height unchanged, and for every image each output
\* dimension is at most the corresponding input dimension (no upscaling).
C7_NoUpscale ==
    call = "returned" =>
        /\ Max2(image.size[1], image.size[2]) <= max_dimension
              => ret.size = image.size
        /\ ret.size[1] <= image.size[1]
        /\ ret.size[2] <= image.size[2]

\* C7 witness: both cases have happened: a small image passed through, or a
\* large one came back smaller.
C7_Witness ==
    /\ call = "returned"
    /\ \/ /\ image.size = <<MaxBox, 3>>
          /\ max_dimension = MaxBox
          /\ ret.size = image.size
       \/ /\ image.size = <<MaxSide, 30>>
          /\ max_dimension = MaxBox
          /\ ret.size[1] < image.size[1]
          /\ ret.size[2] < image.size[2]

\* C8: for an image whose max(width, height) exceeds max_dimension, the
\* output's larger dimension equals max_dimension exactly and the other one
\* is within 1 pixel of smaller * max_dimension / larger (|out * larger -
\* smaller * max_dimension| <= larger), also where that quotient is below 1.
C8_ScaledToBound ==
    (call = "returned" /\ Max2(image.size[1], image.size[2]) > max_dimension) =>
        LET w == image.size[1]
            h == image.size[2]
            ow == ret.size[1]
            oh == ret.size[2]
        IN /\ Max2(ow, oh) = max_dimension
           /\ w >= h => /\ ow = max_dimension
                        /\ Abs(oh * w - h * max_dimension) <= w
           /\ h >= w => /\ oh = max_dimension
                        /\ Abs(ow * h - w * max_dimension) <= h

\* C8 witness: an extreme aspect ratio whose proportional height is below
\* one pixel (1 * 3 / 40) has been scaled, and the height is 1.
C8_Witness ==
    /\ call = "returned"
    /\ image.size = <<MaxSide, 1>>
    /\ max_dimension = 3
    /\ ret.size = <<3, 1>>

-----------------------------------------------------------------------------
(* SpecComposite: Image.alpha_composite applied to two RGBA images of the  *)
(* same size.  Every 8-bit value occurs as a channel of the source.        *)

SourceAlphas == {0, 128, 255}
SourcePixels(p) == {<<p, 255 - p, (p * 3) % 256, a>> : a \in SourceAlphas}
DestinationPixels ==
    { <<255, 255, 255, 255>>, <<0, 128, 254, 255>>, <<200, 100, 50, 77>> }

InitComposite ==
    /\ PipelineUnused
    /\ file = NoFile
    /\ file_type = "none"
    /\ image = NoImage
    /\ max_dimension = 0
    /\ \E n \in 1..MaxPixels, p \in 0..255 :
          /\ im1 \in {PixImg(<<n, 1>>, px) : px \in [1..n -> DestinationPixels]}
          /\ im2 \in {PixImg(<<n, 1>>, px) : px \in [1..n -> SourcePixels(p)]}
    /\ call = "ready"
    /\ ret = [ok |-> FALSE, image |-> NoPixImage]

CallComposite ==
    /\ call = "ready"
    /\ ret' = alpha_composite(im1, im2)
    /\ call' = "returned"
    /\ UNCHANGED <<pipelineVars, file, file_type, image, max_dimension, im1, im2>>

NextComposite == CallComposite

SpecComposite == InitComposite /\ [][NextComposite]_vars

AlphaEverywhere(img, a) == \A i \in DOMAIN img.pixels : img.pixels[i][4] = a

\* C10: the composite is the identity at the alpha extremes: when the
\* foreground's alpha is 255 at every pixel the output equals the foreground
\* whatever the background holds, and when the foreground's alpha is 0 at
\* every pixel and the background's is 255 at every pixel the output equals
\* the background.
C10_AlphaExtremes ==
    call = "returned" =>
        /\ AlphaEverywhere(im2, 255)
              => ret.ok /\ ret.image.pixels = im2.pixels
        /\ (AlphaEverywhere(im2, 0) /\ AlphaEverywhere(im1, 255))
              => ret.ok /\ ret.image.pixels = im1.pixels

\* C10 witness: an opaque two-pixel foreground has been composited over a
\* background that is not opaque everywhere and differs from it.
C10_Witness ==
    /\ call = "returned"
    /\ Len(im2.pixels) = 2
    /\ AlphaEverywhere(im2, 255)
    /\ ~AlphaEverywhere(im1, 255)
    /\ im1.pixels # im2.pixels
    /\ ret.image.pixels = im2.pixels

-----------------------------------------------------------------------------
(* Spec: one run of the script.                                            *)

\* Uploads of the run: no file, a name that is not allowed, an oversized
\* file, an allowed name whose bytes are no image, and images of several
\* sizes and modes.
RunImageDims == { <<2000, 1500>>, <<800, 600>>, <<3, 2000>> }
RunImageModes == {"RGB", "RGBA", "CMYK"}
RunUploads ==
    { NoFile,
      UploadedFile(<<"a",".","g","i","f">>, 2 * BytesPerMB, "image", <<800, 600>>, "RGB"),
      UploadedFile(<<"a",".","p","n","g">>, 6 * BytesPerMB, "image", <<800, 600>>, "RGB"),
      UploadedFile(<<"a",".","J","P","G">>, 2 * BytesPerMB, "garbage", <<0, 0>>, "none") }
    \cup { UploadedFile(<<"a",".","p","n","g">>, 2 * BytesPerMB, "image", d, m) :
              d \in RunImageDims, m \in RunImageModes }

\* What the background remover can write: bytes that decode to an image
\* (of the size it was given or of another one, with or without alpha) or
\* bytes that do not.
StagedFile(name, decodable, img) ==
    [name |-> name, decodable |-> decodable, img |-> img]
RemoverOutputs(input) ==
    { [decodable |-> FALSE, img |-> NoImage] }
    \cup { [decodable |-> TRUE, img |-> Img(sz, m)] :
              sz \in {input.size, <<640, 480>>}, m \in {"RGBA", "RGB"} }

\* Modes Image.save can write as PNG.
PngModes == {"1", "L", "LA", "I", "P", "RGB", "RGBA"}

Init ==
    /\ pc = "validate_foreground"
    /\ foreground_file \in RunUploads
    /\ background_file \in RunUploads
    /\ valid_foreground = FALSE
    /\ valid_background = FALSE
    /\ foreground_img = NoImage
    /\ background_img = NoImage
    /\ processed_foreground = NoImage
    /\ output_img = NoImage
    /\ temp_dir = [exists |-> FALSE, files |-> {}]
    /\ exc = "none"
    /\ messages = <<>>
    /\ executed = <<>>
    /\ file = NoFile
    /\ file_type = "none"
    /\ image = NoImage
    /\ max_dimension = 0
    /\ im1 = NoPixImage
    /\ im2 = NoPixImage
    /\ call = "unused"
    /\ ret = "none"

Ran(stage, outcome) == [stage |-> stage, outcome |-> outcome]
Range(seq) == {seq[i] : i \in DOMAIN seq}

\* A mutant of TemporaryDirectoryExit: the directory is removed only when
\* the block ends normally.
TemporaryDirectoryExitOnSuccessOnly(dir, raising) ==
    IF raising THEN dir ELSE [exists |-> FALSE, files |-> {}]

\* Leaving the with tempfile.TemporaryDirectory() block, normally or by an
\* exception: the directory and all it holds are removed.
TemporaryDirectoryExit(dir, raising) == [exists |-> FALSE, files |-> {}]

\* A statement of the try block outside the with block raises e.
RaiseOutside(stage, e) ==
    /\ exc' = e
    /\ pc' = "except"
    /\ executed' = Append(executed, Ran(stage, e))
    /\ UNCHANGED temp_dir

\* A statement inside the with block raises e: the block is left first.
RaiseInside(stage, e) ==
    /\ exc' = e
    /\ pc' = "except"
    /\ executed' = Append(executed, Ran(stage, e))
    /\ temp_dir' = TemporaryDirectoryExit(temp_dir, TRUE)

\* The statement ran and control passes to next.
Pass(stage, next) ==
    /\ pc' = next
    /\ executed' = Append(executed, Ran(stage, "ok"))
    /\ UNCHANGED exc

\* app.py:60
ValidateForeground ==
    /\ pc = "validate_foreground"
    /\ LET r == validate_file(foreground_file, "Foreground")
       IN /\ valid_foreground' = r.ret
          /\ messages' = messages \o r.errors
    /\ Pass("validate_foreground", "validate_background")
    /\ UNCHANGED <<foreground_file, background_file, valid_background,
                   foreground_img, background_img, processed_foreground,
                   output_img, temp_dir, functionVars>>

\* app.py:61
ValidateBackground ==
    /\ pc = "validate_background"
    /\ LET r == validate_file(background_file, "Background")
       IN /\ valid_background' = r.ret
          /\ messages' = messages \o r.errors
    /\ Pass("validate_background", "gate")
    /\ UNCHANGED <<foreground_file, background_file, valid_foreground,
                   foreground_img, background_img, processed_foreground,
                   output_img, temp_dir, functionVars>>

\* A mutant of BothValid: one valid file is enough.
EitherValid(vf, vb) == vf \/ vb

\* app.py:64: valid_foreground and valid_background
BothValid(vf, vb) == vf /\ vb

\* app.py:64-66: both files are valid, the try block is entered
StartProcessing ==
    /\ pc = "gate"
    /\ BothValid(valid_foreground, valid_background)
    /\ Pass("gate", "open_foreground")
    /\ UNCHANGED <<foreground_file, background_file, valid_foreground,
                   valid_background, foreground_img, background_img,
                   processed_foreground, output_img, temp_dir, messages,
                   functionVars>>

\* app.py:129-130: the else branch
PromptForUploads ==
    /\ pc = "gate"
    /\ ~BothValid(valid_foreground, valid_background)
    /\ messages' = Append(messages, Message("info", "upload_both", "none"))
    /\ Pass("prompt", "done")
    /\ UNCHANGED <<foreground_file, background_file, valid_foreground,
                   valid_background, foreground_img, background_img,
                   processed_foreground, output_img, temp_dir, functionVars>>

\* Image.open(f): UnidentifiedImageError when the bytes are no image, some
\* other error (OSError, DecompressionBombError) possibly, the image otherwise.
OpenOutcomes(f) ==
    IF f.content = "image"
    THEN {[raises |-> "none", img |-> Img(f.dims, f.mode)],
          [raises |-> "Exception", img |-> NoImage]}
    ELSE {[raises |-> "UnidentifiedImageError", img |-> NoImage]}

\* app.py:68
OpenForeground ==
    /\ pc = "open_foreground"
    /\ \E o \in OpenOutcomes(foreground_file) :
          IF o.raises = "none"
          THEN /\ foreground_img' = o.img
               /\ Pass("open_foreground", "open_background")
               /\ UNCHANGED temp_dir
          ELSE /\ RaiseOutside("open_foreground", o.raises)
               /\ UNCHANGED foreground_img
    /\ UNCHANGED <<foreground_file, background_file, valid_foreground,
                   valid_background, background_img, processed_foreground,
                   output_img, messages, functionVars>>

\* app.py:69
OpenBackground ==
    /\ pc = "open_background"
    /\ \E o \in OpenOutcomes(background_file) :
          IF o.raises = "none"
          THEN /\ background_img' = o.img
               /\ Pass("open_background", "log_original")
               /\ UNCHANGED temp_dir
          ELSE /\ RaiseOutside("open_background", o.raises)
               /\ UNCHANGED background_img
    /\ UNCHANGED <<foreground_file, background_file, valid_foreground,
                   valid_background, foreground_img, processed_foreground,
                   output_img, messages, functionVars>>

\* app.py:72-73
LogOriginalSizes ==
    /\ pc = "log_original"
    /\ messages' = messages \o <<Message("write", "original_size", "Foreground"),
                                 Message("write", "original_size", "Background")>>
    /\ Pass("log_original", "compress_foreground")
    /\ UNCHANGED <<foreground_file, background_file, valid_foreground,
                   valid_background, foreground_img, background_img,
                   processed_foreground, output_img, temp_dir, functionVars>>

\* app.py:76
CompressForeground ==
    /\ pc = "compress_foreground"
    /\ \/ /\ foreground_img' \in compress_image(foreground_img, MAX_IMAGE_DIMENSION)
          /\ Pass("compress_foreground", "compress_background")
          /\ UNCHANGED temp_dir
       \/ /\ RaiseOutside("compress_foreground", "Exception")
          /\ UNCHANGED foreground_img
    /\ UNCHANGED <<foreground_file, background_file, valid_foreground,
                   valid_background, background_img, processed_foreground,
                   output_img, messages, functionVars>>

\* app.py:77
CompressBackground ==
    /\ pc = "compress_background"
    /\ \/ /\ background_img' \in compress_image(background_img, MAX_IMAGE_DIMENSION)
          /\ Pass("compress_background", "log_compressed")
          /\ UNCHANGED temp_dir
       \/ /\ RaiseOutside("compress_background", "Exception")
          /\ UNCHANGED background_img
    /\ UNCHANGED <<foreground_file, background_file, valid_foreground,
                   valid_background, foreground_img, processed_foreground,
                   output_img, messages, functionVars>>

\* app.py:80-81
LogCompressedSizes ==
    /\ pc = "log_compressed"
    /\ messages' = messages \o <<Message("write", "compressed_size", "Foreground"),
                                 Message("write", "compressed_size", "Background")>>
    /\ Pass("log_compressed", "create_temp_dir")
    /\ UNCHANGED <<foreground_file, background_file, valid_foreground,
                   valid_background, foreground_img, background_img,
                   processed_foreground, output_img, temp_dir, functionVars>>

\* app.py:84-86: tempfile.TemporaryDirectory() creates the directory
CreateTempDir ==
    /\ pc = "create_temp_dir"
    /\ \/ /\ temp_dir' = [exists |-> TRUE, files |-> {}]
          /\ Pass("create_temp_dir", "save_foreground")
       \/ RaiseOutside("create_temp_dir", "Exception")
    /\ UNCHANGED <<foreground_file, background_file, valid_foreground,
                   valid_background, foreground_img, background_img,
                   processed_foreground, output_img, messages, functionVars>>

\* The directory with file f written (replacing a file of that name).
WithFile(dir, f) ==
    [dir EXCEPT !.files = {g \in @ : g.name # f.name} \cup {f}]

\* app.py:89: foreground_img.save(foreground_path); PNG cannot hold every mode
SaveForeground ==
    /\ pc = "save_foreground"
    /\ \/ /\ foreground_img.mode \in PngModes
          /\ temp_dir' = WithFile(temp_dir,
                                  StagedFile("foreground.png", TRUE, foreground_img))
          /\ Pass("save_foreground", "remove_background")
       \/ RaiseInside("save_foreground", "Exception")
    /\ UNCHANGED <<foreground_file, background_file, valid_foreground,
                   valid_background, foreground_img, background_img,
                   processed_foreground, output_img, messages, functionVars>>

\* app.py:92-93: remove(input_file.read(), alpha_matting=True) written to
\* processed_foreground.png; the remover may raise
RemoveBackground ==
    /\ pc = "remove_background"
    /\ \/ \E out \in RemoverOutputs(foreground_img) :
             /\ temp_dir' = WithFile(temp_dir,
                               StagedFile("processed_foreground.png",
                                          out.decodable, out.img))
             /\ Pass("remove_background", "load_processed")
       \/ RaiseInside("remove_background", "Exception")
    /\ UNCHANGED <<foreground_file, background_file, valid_foreground,
                   valid_background, foreground_img, background_img,
                   processed_foreground, output_img, messages, functionVars>>

\* The file of that name in the directory.
FileNamed(dir, name) == CHOOSE f \in dir.files : f.name = name

\* app.py:96: Image.open(processed_foreground_path)
LoadProcessed ==
    /\ pc = "load_processed"
    /\ LET f == FileNamed(temp_dir, "processed_foreground.png")
       IN \/ /\ f.decodable
             /\ processed_foreground' = f.img
             /\ Pass("load_processed", "resize_background")
             /\ UNCHANGED temp_dir
          \/ /\ ~f.decodable
             /\ RaiseInside("load_processed", "UnidentifiedImageError")
             /\ UNCHANGED processed_foreground
          \/ /\ f.decodable
             /\ RaiseInside("load_processed", "Exception")
             /\ UNCHANGED processed_foreground
    /\ UNCHANGED <<foreground_file, background_file, valid_foreground,
                   valid_background, foreground_img, background_img,
                   output_img, messages, functionVars>>

\* Image.resize(size)
resize(img, size) == Img(size, img.mode)

\* Image.convert(mode)
convert(img, mode) == Img(img.size, mode)

\* A mutant of ReconcileSize: the background is only ever shrunk.
ReconcileSizeShrinkOnly(bg, fg) ==
    IF bg.size[1] > fg.size[1] \/ bg.size[2] > fg.size[2]
    THEN resize(bg, fg.size)
    ELSE bg

\* app.py:99-100: the background takes the processed foreground's size
ReconcileSize(bg, fg) ==
    IF fg.size # bg.size THEN resize(bg, fg.size) ELSE bg

\* app.py:99-100
ResizeBackground ==
    /\ pc = "resize_background"
    /\ \/ /\ background_img' = ReconcileSize(background_img, processed_foreground)
          /\ Pass("resize_background", "convert_foreground")
          /\ UNCHANGED temp_dir
       \/ /\ RaiseInside("resize_background", "Exception")
          /\ UNCHANGED background_img
    /\ UNCHANGED <<foreground_file, background_file, valid_foreground,
                   valid_background, foreground_img, processed_foreground,
                   output_img, messages, functionVars>>

\* app.py:103
ConvertForeground ==
    /\ pc = "convert_foreground"
    /\ \/ /\ processed_foreground' = convert(processed_foreground, "RGBA")
          /\ Pass("convert_foreground", "convert_background")
          /\ UNCHANGED temp_dir
       \/ /\ RaiseInside("convert_foreground", "Exception")
          /\ UNCHANGED processed_foreground
    /\ UNCHANGED <<foreground_file, background_file, valid_foreground,
                   valid_background, foreground_img, background_img,
                   output_img, messages, functionVars>>

\* app.py:104
ConvertBackground ==
    /\ pc = "convert_background"
    /\ \/ /\ background_img' = convert(background_img, "RGBA")
          /\ Pass("convert_background", "composite")
          /\ UNCHANGED temp_dir
       \/ /\ RaiseInside("convert_background", "Exception")
          /\ UNCHANGED background_img
    /\ UNCHANGED <<foreground_file, background_file, valid_foreground,
                   valid_background, foreground_img, processed_foreground,
                   output_img, messages, functionVars>>

\* app.py:107: Image.alpha_composite(background_img, processed_foreground);
\* ValueError when the images do not match
Composite ==
    /\ pc = "composite"
    /\ \/ /\ ImagesMatch(background_img, processed_foreground)
          /\ output_img' = Img(background_img.size, "RGBA")
          /\ Pass("composite", "display_image")
          /\ UNCHANGED temp_dir
       \/ /\ ~ImagesMatch(background_img, processed_foreground)
          /\ RaiseInside("composite", "ValueError")
          /\ UNCHANGED output_img
       \/ /\ RaiseInside("composite", "Exception")
          /\ UNCHANGED output_img
    /\ UNCHANGED <<foreground_file, background_file, valid_foreground,
                   valid_background, foreground_img, background_img,
                   processed_foreground, messages, functionVars>>

\* app.py:110: st.image(output_img, ...)
DisplayImage ==
    /\ pc = "display_image"
    /\ \/ /\ messages' = Append(messages, Message("image", "final_output", "none"))
          /\ Pass("display_image", "show_success")
          /\ UNCHANGED temp_dir
       \/ /\ RaiseInside("display_image", "Exception")
          /\ UNCHANGED messages
    /\ UNCHANGED <<foreground_file, background_file, valid_foreground,
                   valid_background, foreground_img, background_img,
                   processed_foreground, output_img, functionVars>>

\* app.py:111: st.success(...)
ShowSuccess ==
    /\ pc = "show_success"
    /\ messages' = Append(messages, Message("success", "completed", "none"))
    /\ Pass("show_success", "save_output")
    /\ UNCHANGED <<foreground_file, background_file, valid_foreground,
                   valid_background, foreground_img, background_img,
                   processed_foreground, output_img, temp_dir, functionVars>>

\* app.py:114-115: output_img.save(output_img_path)
SaveOutput ==
    /\ pc = "save_output"
    /\ \/ /\ temp_dir' = WithFile(temp_dir,
                                  StagedFile("output.png", TRUE, output_img))
          /\ Pass("save_output", "offer_download")
       \/ RaiseInside("save_output", "Exception")
    /\ UNCHANGED <<foreground_file, background_file, valid_foreground,
                   valid_background, foreground_img, background_img,
                   processed_foreground, output_img, messages, functionVars>>

\* app.py:118-124: open(output_img_path, "rb") and st.download_button(...)
OfferDownload ==
    /\ pc = "offer_download"
    /\ \/ /\ messages' = Append(messages, Message("download", "output.png", "none"))
          /\ Pass("offer_download", "leave_temp_dir")
          /\ UNCHANGED temp_dir
       \/ /\ RaiseInside("offer_download", "Exception")
          /\ UNCHANGED messages
    /\ UNCHANGED <<foreground_file, background_file, valid_foreground,
                   valid_background, foreground_img, background_img,
                   processed_foreground, output_img, functionVars>>

\* app.py:124: the with block ends normally
LeaveTempDir ==
    /\ pc = "leave_temp_dir"
    /\ temp_dir' = TemporaryDirectoryExit(temp_dir, FALSE)
    /\ Pass("leave_temp_dir", "done")
    /\ UNCHANGED <<foreground_file, background_file, valid_foreground,
                   valid_background, foreground_img, background_img,
                   processed_foreground, output_img, messages, functionVars>>

\* app.py:125-128: the diagnostic of the except clause that catches e
HandlerMessage(e) ==
    IF e = "UnidentifiedImageError"
    THEN Message("error", "invalid_image", "none")
    ELSE Message("error", "unexpected", "none")

\* app.py:125-128
HandleException ==
    /\ pc = "except"
    /\ messages' = Append(messages, HandlerMessage(exc))
    /\ exc' = "none"
    /\ pc' = "done"
    /\ executed' = Append(executed, Ran("except", "ok"))
    /\ UNCHANGED <<foreground_file, background_file, valid_foreground,
                   valid_background, foreground_img, background_img,
                   processed_foreground, output_img, temp_dir, functionVars>>

Next ==
    \/ ValidateForeground
    \/ ValidateBackground
    \/ StartProcessing
    \/ PromptForUploads
    \/ OpenForeground
    \/ OpenBackground
    \/ LogOriginalSizes
    \/ CompressForeground
    \/ CompressBackground
    \/ LogCompressedSizes
    \/ CreateTempDir
    \/ SaveForeground
    \/ RemoveBackground
    \/ LoadProcessed
    \/ ResizeBackground
    \/ ConvertForeground
    \/ ConvertBackground
    \/ Composite
    \/ DisplayImage
    \/ ShowSuccess
    \/ SaveOutput
    \/ OfferDownload
    \/ LeaveTempDir
    \/ HandleException

Spec == Init /\ [][Next]_vars

-----------------------------------------------------------------------------
(* What the claims about a run speak of.                                   *)

StagesRun == {executed[i].stage : i \in DOMAIN executed}
Raised(stage) ==
    \E i \in DOMAIN executed :
        executed[i].stage = stage /\ executed[i].outcome # "ok"
SomeStageRaised == \E i \in DOMAIN executed : executed[i].outcome # "ok"
Count(kind) == Cardinality({i \in DOMAIN messages : messages[i].kind = kind})
Shown(kind) == Count(kind) > 0

\* The upload is present and acceptable by name and size, stated without
\* validate_file.
FilePasses(f) ==
    /\ f.present
    /\ Lower(AfterLastDot(f.name)) \in AllowedFormatSet
    /\ ~SizeExceedsCeiling(f.size)
\* The upload is present and validation must reject it.
FileRejected(f) == f.present /\ ~FilePasses(f)

ValidationStages == {"validate_foreground", "validate_background", "gate", "prompt"}
ReconcileAndLaterStages ==
    {"resize_background", "convert_foreground", "convert_background",
     "composite", "display_image", "show_success", "save_output",
     "offer_download", "leave_temp_dir"}

\* C2: no stage after validation (decode, downscale, background removal,
\* reconcile, composite, export) runs unless both files passed validation;
\* when either file fails, the run ends having decoded nothing.
C2_ValidationGate ==
    /\ (StagesRun \ ValidationStages # {})
          => (FilePasses(foreground_file) /\ FilePasses(background_file))
    /\ (pc = "done" /\ ~(FilePasses(foreground_file) /\ FilePasses(background_file)))
          => /\ StagesRun = {"validate_foreground", "validate_background", "prompt"}
             /\ foreground_img = NoImage
             /\ background_img = NoImage
             /\ ~temp_dir.exists

\* C2 witness: a run with a valid foreground and a rejected background has
\* ended after the three validation statements.
C2_Witness ==
    /\ pc = "done"
    /\ FilePasses(foreground_file)
    /\ FileRejected(background_file)
    /\ Len(executed) = 3

\* C3 (as claimed): in every run in which some stage fails (validation of a
\* file, or any later stage), exactly one diagnostic (st.error) is shown.
C3_ExactlyOneDiagnostic ==
    (/\ pc = "done"
     /\ \/ FileRejected(foreground_file)
        \/ FileRejected(background_file)
        \/ SomeStageRaised)
        => Count("error") = 1

\* C3 (amended): a run in which a stage after validation raises shows exactly
\* one error diagnostic; a run stopped by validation shows one error
\* diagnostic per present file that fails validation (two when both do, none
\* for a missing file) and the upload prompt once.
C3_DiagnosticPerFailure ==
    pc = "done" =>
        LET rejected == {w \in {"Foreground", "Background"} :
                            FileRejected(IF w = "Foreground" THEN foreground_file
                                         ELSE background_file)}
        IN IF SomeStageRaised
           THEN Count("error") = 1 /\ Count("info") = 0
           ELSE IF FilePasses(foreground_file) /\ FilePasses(background_file)
           THEN Count("error") = 0 /\ Count("info") = 0
           ELSE /\ Count("error") = Cardinality(rejected)
                /\ \A w \in rejected :
                      \E i \in DOMAIN messages :
                          messages[i].kind = "error" /\ messages[i].who = w
                /\ Count("info") = 1

\* C3 witness: a run in which both files are present and fail validation has
\* ended with two error diagnostics.
C3_Witness ==
    /\ pc = "done"
    /\ FileRejected(foreground_file)
    /\ FileRejected(background_file)
    /\ Count("error") = 2

\* C4 (as claimed): in a run in which any stage raises, the composite image
\* is not displayed, no success message is shown, no download is offered,
\* and no stage runs twice.
C4_NoPartialOutput ==
    SomeStageRaised =>
        /\ ~Shown("image")
        /\ ~Shown("success")
        /\ ~Shown("download")
        /\ \A i, j \in DOMAIN executed :
              executed[i].stage = executed[j].stage => i = j

\* The background remover raised, or wrote bytes that do not decode.
RemoverFailed ==
    \/ Raised("remove_background")
    \/ \E i \in DOMAIN executed :
          executed[i] = Ran("load_processed", "UnidentifiedImageError")

\* C5 (as claimed): when the background remover raises or returns bytes that
\* do not decode, the run shows a single unexpected-error diagnostic (not the
\* invalid-upload one) and skips reconcile, composite and export.
C5_RemoverFailureIsUnexpected ==
    (pc = "done" /\ RemoverFailed) =>
        /\ Count("error") = 1
        /\ \A i \in DOMAIN messages :
              messages[i].kind = "error" => messages[i].text = "unexpected"
        /\ StagesRun \cap ReconcileAndLaterStages = {}

\* C6: on every exit path of a run that created the temporary directory
\* (normal completion, or an exception raised inside the block), the
\* directory and every file staged in it no longer exist when the block has
\* been left.
C6_TempDirRemoved ==
    (pc \in {"except", "done"} /\ Ran("create_temp_dir", "ok") \in Range(executed))
        => temp_dir = [exists |-> FALSE, files |-> {}]

\* C6 witness: a run that failed while saving the output, with files staged,
\* has ended.
C6_Witness ==
    /\ pc = "done"
    /\ Raised("save_output")
    /\ Ran("remove_background", "ok") \in Range(executed)
    /\ ~temp_dir.exists

\* C9: after the reconcile step both images have the same width and height
\* and the mode RGBA, the background has the foreground's size, and the
\* foreground has the size it was loaded with; the compositor is never
\* called with images that do not match.
C9_Reconciled ==
    /\ pc = "composite" =>
          /\ background_img.size = processed_foreground.size
          /\ background_img.mode = "RGBA"
          /\ processed_foreground.mode = "RGBA"
          /\ processed_foreground.size =
                FileNamed(temp_dir, "processed_foreground.png").img.size
    /\ ~(Ran("composite", "ValueError") \in Range(executed))

\* C9 witness: a tall CMYK background smaller than the processed foreground
\* in width has been reconciled with a 1024 x 768 foreground that came back
\* without alpha.
C9_Witness ==
    /\ pc = "composite"
    /\ background_file.dims = <<3, 2000>>
    /\ background_file.mode = "CMYK"
    /\ foreground_file.dims = <<2000, 1500>>
    /\ FileNamed(temp_dir, "processed_foreground.png").img = Img(<<1024, 768>>, "RGB")
    /\ background_img = Img(<<1024, 768>>, "RGBA")

=============================================================================
